---- MODULE Spec2Model ----
(***************************************************************************)
(* simple-sds011: the response interpreter (interpret and its two          *)
(* sub-functions), the command builder (_send_command) and the property    *)
(* cache kept by SDS011._rw_property, from src/simple_sds011/__init__.py.  *)
(*                                                                         *)
(* Python byte strings are sequences of integers 0..255; Python index i is *)
(* position i + 1 of the sequence.  A Python value stored in the cache is  *)
(* a tagged record: None, an int, a str (a sequence of characters) or the  *)
(* dict of a sample.  An exception is the name of its class.               *)
(***************************************************************************)
EXTENDS Integers, Sequences, FiniteSets, TLC

(***************************************************************************)
(* Module constants of the source.                                         *)
(***************************************************************************)
MSG_HEAD == 170
MSG_ID == 180
MSG_TAIL == 171

CMD_REPORT_MODE == 2
CMD_QUERY == 4
CMD_WAKE_STATE == 6
CMD_FIRMWARE == 7
CMD_WORK_PERIOD == 8

REPLY_PROPERTY == 197
REPLY_SAMPLE == 192

READ_SIZE == 10

(***************************************************************************)
(* Bounds of the model.                                                    *)
(***************************************************************************)
\* values written by the setters and echoed in byte 4 of a property reply
MaxValue == 1
\* longest byte string handed to interpret() directly
MaxLen == 11

(***************************************************************************)
(* Python values.                                                          *)
(***************************************************************************)
None == [t |-> "None"]
IntVal(n) == [t |-> "int", i |-> n]
StrVal(s) == [t |-> "str", s |-> s]
DictVal(a, b) == [t |-> "dict", pm25 |-> a, pm10 |-> b]

NoReply == [t |-> "noreply"]
NoCall == [op |-> "idle"]

Digit(d) == <<"0", "1", "2", "3", "4", "5", "6", "7", "8", "9">>[d + 1]

\* str(n) for n >= 0, as the f-string formats an int
RECURSIVE Str(_)
Str(n) == IF n < 10 THEN <<Digit(n)>> ELSE Str(n \div 10) \o <<Digit(n % 10)>>

\* n / 10 of Python for 0 <= n < 65536: the float with one decimal digit
TrueDiv10(n) == [whole |-> n \div 10, tenths |-> n % 10]

(***************************************************************************)
(* Byte strings.                                                           *)
(***************************************************************************)
At(b, i) == b[i + 1]

Min(a, b) == IF a < b THEN a ELSE b

\* b[lo:hi]: a slice never raises, it is cut at the end of the string
Slice(b, lo, hi) == SubSeq(b, lo + 1, Min(hi, Len(b)))

RECURSIVE sum(_)
sum(b) == IF b = <<>> THEN 0 ELSE Head(b) + sum(Tail(b))

\* variant: int.from_bytes(b, 'big')
RECURSIVE from_bytes_big(_)
from_bytes_big(b) ==
    IF b = <<>> THEN 0
    ELSE 256 * from_bytes_big(SubSeq(b, 1, Len(b) - 1)) + b[Len(b)]

\* int.from_bytes(b, 'little')
RECURSIVE from_bytes_little(_)
from_bytes_little(b) ==
    IF b = <<>> THEN 0 ELSE Head(b) + 256 * from_bytes_little(Tail(b))

Zeros(n) == [i \in 1..n |-> 0]

calc_payload_checksum(payload) == sum(payload) % 256

device_id == <<255, 255>>

(***************************************************************************)
(* interpret() and its sub-functions.  A result is the exception raised    *)
(* ("none" when the call returns) and the reply dictionary.                *)
(***************************************************************************)
Raise(e) == [err |-> e, reply |-> NoReply]
Return(r) == [err |-> "none", reply |-> r]

\* variant: two entries of the table exchanged
property_switch_swapped ==
    (2 :> "mode") @@ (5 :> "id") @@ (6 :> "period") @@ (7 :> "firmware")
        @@ (8 :> "active")

property_switch ==
    (2 :> "mode") @@ (5 :> "id") @@ (6 :> "active") @@ (7 :> "firmware")
        @@ (8 :> "period")

\* variant: the value of a property is taken from byte 3
interpret_property_byte3(bytestring) ==
    IF Len(bytestring) < 3 THEN Raise("IndexError")
    ELSE IF At(bytestring, 2) \notin DOMAIN property_switch
    THEN Raise("KeyError")
    ELSE LET type == property_switch[At(bytestring, 2)] IN
         IF type = "firmware"
         THEN IF Len(bytestring) < 6 THEN Raise("IndexError")
              ELSE Return([type |-> type,
                           value |-> StrVal(Str(2000 + At(bytestring, 3))
                                            \o <<"-">>
                                            \o Str(At(bytestring, 4))
                                            \o <<"-">>
                                            \o Str(At(bytestring, 5)))])
         ELSE IF Len(bytestring) < 5 THEN Raise("IndexError")
              ELSE Return([type |-> type,
                           value |-> IntVal(At(bytestring, 3))])

interpret_property(bytestring) ==
    IF Len(bytestring) < 3 THEN Raise("IndexError")
    ELSE IF At(bytestring, 2) \notin DOMAIN property_switch
    THEN Raise("KeyError")
    ELSE LET type == property_switch[At(bytestring, 2)] IN
         IF type = "firmware"
         THEN IF Len(bytestring) < 6 THEN Raise("IndexError")
              ELSE Return([type |-> type,
                           value |-> StrVal(Str(2000 + At(bytestring, 3))
                                            \o <<"-">>
                                            \o Str(At(bytestring, 4))
                                            \o <<"-">>
                                            \o Str(At(bytestring, 5)))])
         ELSE IF Len(bytestring) < 5 THEN Raise("IndexError")
              ELSE Return([type |-> type,
                           value |-> IntVal(At(bytestring, 4))])

interpret_sample(bytestring) ==
    Return([type |-> "sample",
            value |-> DictVal(
                TrueDiv10(from_bytes_little(Slice(bytestring, 2, 4))),
                TrueDiv10(from_bytes_little(Slice(bytestring, 4, 6))))])

\* variant: a kind that is not a property reply is taken for a sample
reply_switch_default(bytestring) ==
    IF Len(bytestring) < 2 THEN Raise("IndexError")
    ELSE IF At(bytestring, 1) = REPLY_PROPERTY
    THEN interpret_property(bytestring)
    ELSE interpret_sample(bytestring)

\* switch[bytestring[1]](): the dispatch on the reply kind
reply_switch(bytestring) ==
    IF Len(bytestring) < 2 THEN Raise("IndexError")
    ELSE IF At(bytestring, 1) = REPLY_PROPERTY
    THEN interpret_property(bytestring)
    ELSE IF At(bytestring, 1) = REPLY_SAMPLE
    THEN interpret_sample(bytestring)
    ELSE Raise("KeyError")

\* variant: the sum without "& 255"
verify_packet_unmasked(bytestring) ==
    At(bytestring, 8) = sum(Slice(bytestring, 2, 8))

\* bytestring[8] == sum(bytestring[2:8]) & 255
verify_packet(bytestring) ==
    At(bytestring, 8) = calc_payload_checksum(Slice(bytestring, 2, 8))

\* reply['set'] = bytestring[3] and reply['checksum'] = bytestring[8] == ...
\* index the string; reply['id'] = bytestring[6:8] is a slice
interpret(bytestring) ==
    LET part == reply_switch(bytestring) IN
    IF part.err # "none" THEN part
    ELSE IF Len(bytestring) < 4 THEN Raise("IndexError")
    ELSE IF Len(bytestring) < 9 THEN Raise("IndexError")
    ELSE Return([type |-> part.reply.type,
                 value |-> part.reply.value,
                 set |-> At(bytestring, 3),
                 id |-> Slice(bytestring, 6, 8),
                 checksum |-> verify_packet(bytestring)])

(***************************************************************************)
(* _send_command(): the message handed to the transport.                   *)
(***************************************************************************)
\* variant: eight bytes of padding instead of ten
send_command_short(command, write, value) ==
    LET payload == <<command, write, value>> \o Zeros(8) \o device_id
        checksum == <<sum(payload) % 256>>
    IN  <<MSG_HEAD, MSG_ID>> \o payload \o checksum \o <<MSG_TAIL>>

send_command(command, write, value) ==
    LET payload == <<command, write, value>> \o Zeros(10) \o device_id
        checksum == <<sum(payload) % 256>>
    IN  <<MSG_HEAD, MSG_ID>> \o payload \o checksum \o <<MSG_TAIL>>

(***************************************************************************)
(* _rw_property().                                                         *)
(***************************************************************************)
InfoKeys == {"active", "device_id", "firmware", "mode", "period"}

p_switch ==
    ("active" :> CMD_WAKE_STATE) @@ ("firmware" :> CMD_FIRMWARE)
        @@ ("mode" :> CMD_REPORT_MODE) @@ ("period" :> CMD_WORK_PERIOD)

\* variants of the cache test: the truth value of the entry instead of
\* "is not None", and the test without "not p_set"
stored_read_truthy(inf, p, p_set) ==
    inf[p] \notin {None, IntVal(0)} /\ p_set = 0

stored_read_any(inf, p, p_set) == inf[p] # None

\* self.info[p] is not None and not p_set
stored_read(inf, p, p_set) == inf[p] # None /\ p_set = 0

\* variant: the checksum of the reply is not looked at
checksum_ignored(reply) == FALSE

\* raise ValueUnknownError when response['checksum'] is not True
checksum_rejected(reply) == reply.checksum # TRUE

\* variant: the wrong key of the reply
store_set_flag(inf, p, reply) == [inf EXCEPT ![p] = IntVal(reply.set)]

\* self.info[p] = response['value']
store(inf, p, reply) == [inf EXCEPT ![p] = reply.value]

\* the handler of IndexError
index_error_handler(p_set) ==
    IF p_set # 0 THEN "DeviceInactiveError" ELSE "ValueUnknownError"

\* What one request leaves behind: the cache, the exception raised, the
\* value returned, the messages written, the number of reads and the bytes
\* the read returned.
Outcome(inf, raised, ret, written, reads, response) ==
    [info |-> inf, raised |-> raised, ret |-> ret, written |-> written,
     reads |-> reads, response |-> response]

\* _send_command then _get_response, without the try of _rw_property.
\* io is what the transport does: "ok", or SerialException raised by the
\* write or by the read.
exchange(command, write, value, io, response) ==
    LET message == send_command(command, write, value) IN
    IF io = "write_error"
    THEN [raised |-> "SerialException", reply |-> NoReply,
          written |-> <<message>>, reads |-> 0, response |-> <<>>]
    ELSE IF io = "read_error"
    THEN [raised |-> "SerialException", reply |-> NoReply,
          written |-> <<message>>, reads |-> 1, response |-> <<>>]
    ELSE LET r == interpret(response) IN
         [raised |-> r.err, reply |-> r.reply,
          written |-> <<message>>, reads |-> 1, response |-> response]

\* variant: the entry is assigned before the checksum is tested
rw_property_store_first(inf, p, p_set, p_value, io, response) ==
    IF stored_read(inf, p, p_set)
    THEN Outcome(inf, "none",
                 [type |-> p, set |-> 0, value |-> inf[p],
                  id |-> device_id, checksum |-> TRUE],
                 <<>>, 0, <<>>)
    ELSE IF p \notin DOMAIN p_switch
    THEN Outcome(inf, "KeyError", NoReply, <<>>, 0, <<>>)
    ELSE LET x == exchange(p_switch[p], p_set, p_value, io, response) IN
         IF x.raised = "IndexError"
         THEN Outcome(inf, index_error_handler(p_set), NoReply,
                      x.written, x.reads, x.response)
         ELSE IF x.raised # "none"
         THEN Outcome(inf, x.raised, NoReply, x.written, x.reads, x.response)
         ELSE IF checksum_rejected(x.reply)
         THEN Outcome(store(inf, p, x.reply), "ValueUnknownError", NoReply,
                      x.written, x.reads, x.response)
         ELSE Outcome(store(inf, p, x.reply), "none", x.reply,
                      x.written, x.reads, x.response)

rw_property(inf, p, p_set, p_value, io, response) ==
    IF stored_read(inf, p, p_set)
    THEN Outcome(inf, "none",
                 [type |-> p, set |-> 0, value |-> inf[p],
                  id |-> device_id, checksum |-> TRUE],
                 <<>>, 0, <<>>)
    ELSE IF p \notin DOMAIN p_switch
    THEN Outcome(inf, "KeyError", NoReply, <<>>, 0, <<>>)
    ELSE LET x == exchange(p_switch[p], p_set, p_value, io, response) IN
         IF x.raised = "IndexError"
         THEN Outcome(inf, index_error_handler(p_set), NoReply,
                      x.written, x.reads, x.response)
         ELSE IF x.raised # "none"
         THEN Outcome(inf, x.raised, NoReply, x.written, x.reads, x.response)
         ELSE IF checksum_rejected(x.reply)
         THEN Outcome(inf, "ValueUnknownError", NoReply,
                      x.written, x.reads, x.response)
         ELSE Outcome(store(inf, p, x.reply), "none", x.reply,
                      x.written, x.reads, x.response)

\* variant: the sample read is kept in the cache
query_cached(inf, io, response) ==
    LET x == exchange(CMD_QUERY, 0, 0, io, response) IN
    Outcome(IF x.raised = "none" THEN store(inf, "mode", x.reply) ELSE inf,
            x.raised, x.reply, x.written, x.reads, x.response)

\* query(): no cache and no exception handler
query(inf, io, response) ==
    LET x == exchange(CMD_QUERY, 0, 0, io, response) IN
    Outcome(inf, x.raised, x.reply, x.written, x.reads, x.response)

(***************************************************************************)
(* What the transport can hand back to read(10).                           *)
(***************************************************************************)
\* bytes that are no head, tail or reply kind, and property ids off the table
BadBytes == {0}
UnmappedIds == {9}

\* a 10-byte frame around the six data bytes; ck is added to the checksum
MakeFrame(head, kind, data, ck, tail) ==
    <<head, kind>> \o data \o <<(sum(data) + ck) % 256, tail>>

PropertyData(values) ==
    {<<id, 1, v, 0, 255, 255>> :
        id \in {2, 5, 6, 8} \cup UnmappedIds, v \in values}

FirmwareData == {<<7, 21, 6, 15, 255, 255>>}

SampleData == {<<150, 0, 44, 1, 255, 255>>}

\* reply kind and data bytes: property replies with the given values, the
\* firmware reply, a sample reply and a reply of no known kind
Bodies(values) ==
    {<<REPLY_PROPERTY, d>> : d \in PropertyData(values) \cup FirmwareData}
        \cup {<<REPLY_SAMPLE, d>> : d \in SampleData}
        \cup {<<k, d>> : k \in BadBytes, d \in FirmwareData}

\* frames with the right head and tail, the checksum right or wrong
WellFramed == {MakeFrame(MSG_HEAD, b[1], b[2], ck, MSG_TAIL) :
                  b \in Bodies(0..MaxValue), ck \in {0, 1}}

\* frames with a wrong head or a wrong tail, the checksum right
Misframed ==
    {MakeFrame(x, b[1], b[2], 0, MSG_TAIL) :
        x \in BadBytes, b \in Bodies({0})}
        \cup {MakeFrame(MSG_HEAD, b[1], b[2], 0, x) :
                  x \in BadBytes, b \in Bodies({0})}

\* a read that timed out returns the bytes received so far: all but the
\* tail of any frame, or a shorter part of a frame
ShortReads ==
    {SubSeq(f, 1, READ_SIZE - 1) : f \in WellFramed}
        \cup {SubSeq(MakeFrame(MSG_HEAD, b[1], b[2], 0, MSG_TAIL), 1, n) :
                  b \in Bodies({0}), n \in 0..(READ_SIZE - 2)}

Responses == WellFramed \cup Misframed \cup ShortReads

\* one (io, response) pair per thing the transport can do
TransportRuns ==
    {<<"ok", r>> : r \in Responses}
        \cup {<<"write_error", <<>>>>, <<"read_error", <<>>>>}

Getters == {"active", "firmware", "mode", "period"}
Setters == {"active", "mode", "period"}

\* the values the setters are given: value: bool, and value: int for period
SetValues(p) == IF p = "period" THEN 0..MaxValue ELSE {0, 1}

(***************************************************************************)
(* The device facade: the cache and the request in progress.               *)
(***************************************************************************)
\* self.info, the cache
VARIABLE info
\* the request being served and what it did
VARIABLE call
\* the argument and the result of a direct call of interpret()
VARIABLE parse
\* the arguments and the result of a call of set_up()
VARIABLE setup
\* the request each of the two callers has in progress, step by step
VARIABLE threads
\* the replies waiting in the input buffer of the serial port
VARIABLE rx
\* whether a request was ever started while another was in progress
VARIABLE overlap

vars == <<info, call, parse, setup, threads, rx, overlap>>

NoParse == [state |-> "none"]
NoSetUp == [state |-> "none"]
IdleThread == [pc |-> "idle"]
Threads == {1, 2}

Init ==
    /\ info = [k \in InfoKeys |-> None]
    /\ call = NoCall
    /\ parse = NoParse
    /\ setup = NoSetUp
    /\ threads = [t \in Threads |-> IdleThread]
    /\ rx = <<>>
    /\ overlap = FALSE

Record(op, p, p_set, p_value, o) ==
    [op |-> op, p |-> p, p_set |-> p_set, p_value |-> p_value,
     raised |-> o.raised, ret |-> o.ret, written |-> o.written,
     reads |-> o.reads, response |-> o.response]

\* the property getters: active, firmware, mode, period
Get ==
    /\ call = NoCall
    /\ \E p \in Getters, t \in TransportRuns :
          LET o == rw_property(info, p, 0, 0, t[1], t[2]) IN
          /\ info' = o.info
          /\ call' = Record("get", p, 0, 0, o)
    /\ UNCHANGED <<parse, setup, threads, rx, overlap>>

\* the property setters: active, mode, period
Set ==
    /\ call = NoCall
    /\ \E p \in Setters, t \in TransportRuns :
       \E v \in SetValues(p) :
          LET o == rw_property(info, p, 1, v, t[1], t[2]) IN
          /\ info' = o.info
          /\ call' = Record("set", p, 1, v, o)
    /\ UNCHANGED <<parse, setup, threads, rx, overlap>>

Query ==
    /\ call = NoCall
    /\ \E t \in TransportRuns :
          LET o == query(info, t[1], t[2]) IN
          /\ info' = o.info
          /\ call' = Record("query", "sample", 0, 0, o)
    /\ UNCHANGED <<parse, setup, threads, rx, overlap>>

\* the caller takes the result or the exception; the packets are dropped
Done ==
    /\ call # NoCall
    /\ call' = NoCall
    /\ UNCHANGED <<info, parse, setup, threads, rx, overlap>>

Next == Get \/ Set \/ Query \/ Done

Spec == Init /\ [][Next]_vars

(***************************************************************************)
(* Properties of the cache (specification Spec).                           *)
(***************************************************************************)
\* a step in which a request is served
Served == call = NoCall /\ call' # NoCall

\* C1: once the entry of property p is known, a get of p returns the entry
\* without raising and writes and reads nothing on the transport, and no
\* request other than a set of p changes the entry.
C1_CacheHit ==
    [][\A p \in Getters :
          (Served /\ info[p] # None) =>
              /\ (call'.op = "get" /\ call'.p = p) =>
                    /\ call'.raised = "none"
                    /\ call'.ret.value = info[p]
                    /\ call'.written = <<>>
                    /\ call'.reads = 0
              /\ ~(call'.op = "set" /\ call'.p = p) => info'[p] = info[p]]_vars

\* a get answered from the cache whose entry is the int 0
C1_Witness ==
    /\ call.op = "get"
    /\ call.raised = "none"
    /\ call.written = <<>>
    /\ call.reads = 0
    /\ info[call.p] = IntVal(0)
    /\ call.ret.value = IntVal(0)

\* the command code of each settable property (section 6 of the spec)
WireCode(p) ==
    CASE p = "mode" -> 2 [] p = "active" -> 6 [] p = "period" -> 8

\* C2: every set writes exactly one message, a write command (flag 1) for
\* the property with the value asked for, whatever the cache holds.
C2_SetAlwaysWrites ==
    call.op = "set" =>
        /\ Len(call.written) = 1
        /\ call.written[1][3] = WireCode(call.p)
        /\ call.written[1][4] = 1
        /\ call.written[1][5] = call.p_value

\* a set that wrote its command although the cache held the value asked for
\* (the set failed on the checksum, so the entry is the one from before)
C2_Witness ==
    /\ call.op = "set"
    /\ call.raised = "ValueUnknownError"
    /\ info[call.p] = IntVal(call.p_value)
    /\ Len(call.written) = 1

\* C3 as stated: after a successful set the entry is the value asked for.
C3_Original ==
    (call.op = "set" /\ call.raised = "none") =>
        /\ info[call.p] = IntVal(call.p_value)
        /\ call.ret.value = info[call.p]

\* byte 4 of a property reply other than firmware is its value
IsPlainPropertyReply(r) ==
    /\ Len(r) >= 9
    /\ r[2] = 197
    /\ r[3] \in {2, 5, 6, 8}

\* C3: after a successful set the entry is the value of the device's reply
\* (byte 4 of a property reply), and the value returned is the entry.
C3_SetStoresConfirmed ==
    (call.op = "set" /\ call.raised = "none") =>
        /\ info[call.p] # None
        /\ call.ret.value = info[call.p]
        /\ IsPlainPropertyReply(call.response) =>
               info[call.p] = IntVal(call.response[5])

\* a successful set whose reply carries another value than the one asked for
C3_Witness ==
    /\ call.op = "set"
    /\ call.raised = "none"
    /\ call.p_value = 0
    /\ IsPlainPropertyReply(call.response)
    /\ call.response[5] = 1
    /\ info[call.p] = IntVal(1)

\* the checksum rule of a response packet: byte 8 is the sum of bytes 2..7
\* modulo 256
ChecksumHolds(r) == r[9] = (r[3] + r[4] + r[5] + r[6] + r[7] + r[8]) % 256

\* ten bytes between the head 0xAA and the tail 0xAB
IsWellFramed(r) == Len(r) = 10 /\ r[1] = 170 /\ r[10] = 171

\* byte 1 is a reply kind and, in a property reply, byte 2 is in the table
IsDecodable(r) ==
    /\ Len(r) >= 3
    /\ \/ r[2] = 192
       \/ r[2] = 197 /\ r[3] \in {2, 5, 6, 7, 8}

\* a get that missed the cache, or a set, whose read returned bytes
ReadReply(c) ==
    /\ c.op \in {"get", "set"}
    /\ c.reads = 1
    /\ c.raised # "SerialException"

\* C4 as stated: a well-framed reply with a wrong checksum makes the get or
\* set fail with ValueUnknownError and leaves the entry as it was.
C4_Original ==
    [][(Served /\ ReadReply(call') /\ IsWellFramed(call'.response)
            /\ ~ChecksumHolds(call'.response)) =>
          /\ call'.raised = "ValueUnknownError"
          /\ info'[call'.p] = info[call'.p]]_vars

\* C4: a well-framed reply with a wrong checksum makes the get or set fail,
\* with ValueUnknownError when the reply is of a recognized kind and
\* property and with KeyError when it is not, and leaves the entry as it
\* was.
C4_BadChecksumFails ==
    [][(Served /\ ReadReply(call') /\ IsWellFramed(call'.response)
            /\ ~ChecksumHolds(call'.response)) =>
          /\ call'.raised = IF IsDecodable(call'.response)
                            THEN "ValueUnknownError" ELSE "KeyError"
          /\ info'[call'.p] = info[call'.p]]_vars

\* a set refused for the checksum of a well-framed reply, its entry known
C4_Witness ==
    /\ call.op = "set"
    /\ call.reads = 1
    /\ IsWellFramed(call.response)
    /\ ~ChecksumHolds(call.response)
    /\ IsDecodable(call.response)
    /\ call.raised = "ValueUnknownError"
    /\ info[call.p] \notin {None, IntVal(call.response[5])}

\* C5 as stated: a read of fewer than 10 bytes makes a set fail with
\* DeviceInactiveError and a get that missed the cache fail with
\* ValueUnknownError.
C5_ShortRead ==
    (ReadReply(call) /\ Len(call.response) < 10) =>
        call.raised = IF call.op = "set" THEN "DeviceInactiveError"
                      ELSE "ValueUnknownError"

\* C6 as stated: an entry changes only when a get or set of it received a
\* complete reply with a right checksum, and a known entry stays known.
C6_CachePopulation ==
    [][\A k \in InfoKeys :
          /\ info'[k] # info[k] =>
                /\ Served
                /\ ReadReply(call')
                /\ call'.p = k
                /\ Len(call'.response) = 10
                /\ ChecksumHolds(call'.response)
          /\ info[k] # None => info'[k] # None]_vars

\* any request whose read returned bytes
ReadAny(c) ==
    /\ c.op \in {"get", "set", "query"}
    /\ c.reads = 1
    /\ c.raised # "SerialException"

\* C9 as stated: a reply whose byte 1 is neither 0xC5 nor 0xC0 makes the
\* request fail with UnknownReplyKindError.
C9_Original ==
    (ReadAny(call) /\ Len(call.response) >= 2
        /\ call.response[2] \notin {197, 192}) =>
        call.raised = "UnknownReplyKindError"

\* C9: a reply with byte 1 = 0xC5 is decoded as a property reply, one with
\* byte 1 = 0xC0 as a sample reply, and any other byte 1 makes the get, set
\* or query that read it fail with KeyError.
C9_KindDispatch ==
    (ReadAny(call) /\ Len(call.response) >= 2) =>
        /\ call.response[2] \notin {197, 192} => call.raised = "KeyError"
        /\ (call.response[2] = 192 /\ call.raised = "none") =>
               call.ret.type = "sample" /\ call.ret.value.t = "dict"
        /\ (call.response[2] = 197 /\ call.raised = "none") =>
               /\ call.ret.type \in
                      {"mode", "id", "active", "firmware", "period"}
               /\ call.ret.value.t \in {"int", "str"}
        /\ (call.op = "query" /\ Len(call.response) = 10
                /\ call.response[2] = 192) => call.raised = "none"

\* a query that read a full reply of an unknown kind
C9_Witness ==
    /\ call.op = "query"
    /\ call.reads = 1
    /\ Len(call.response) = 10
    /\ call.response[2] \notin {197, 192}
    /\ call.raised = "KeyError"

\* the layout of a command around its command code, write flag and value:
\* ten zero bytes and the device id 0xFF 0xFF follow them, the byte after
\* is the low 8 bits of their sum, between 0xAA 0xB4 and 0xAB
IsCommand(m, n) ==
    /\ Len(m) = n
    /\ m[1] = 170
    /\ m[2] = 180
    /\ \A i \in 6..(n - 4) : m[i] = 0
    /\ m[n - 3] = 255
    /\ m[n - 2] = 255
    /\ m[n - 1] = (m[3] + m[4] + m[5] + 255 + 255) % 256
    /\ m[n] = 171

\* C11 as stated: every message written to the transport is 17 bytes long.
C11_Original ==
    \A i \in 1..(IF call = NoCall THEN 0 ELSE Len(call.written)) :
        IsCommand(call.written[i], 17)

\* C11: every message written to the transport by a get, set or query is
\* 19 bytes long: 0xAA 0xB4, the 15 payload bytes (command, write flag,
\* value, ten zero bytes, device id 0xFF 0xFF), the low 8 bits of the sum of
\* the payload, 0xAB.
C11_CommandFraming ==
    \A i \in 1..(IF call = NoCall THEN 0 ELSE Len(call.written)) :
        IsCommand(call.written[i], 19)

\* a set of period to 1 that wrote its command: the checksum is 8 + 1 + 1 +
\* 255 + 255 modulo 256
C11_Witness ==
    /\ call.op = "set"
    /\ call.p = "period"
    /\ call.p_value = 1
    /\ Len(call.written) = 1
    /\ call.written[1][3] = 8
    /\ call.written[1][18] = 8

\* C12 as stated: a query fails with ValueUnknownError on a reply with a
\* wrong checksum, and with a typed error (DeviceInactiveError or
\* ValueUnknownError) on a read of fewer than 10 bytes; it returns no
\* sample in either case.
C12_QueryFailureModes ==
    (call.op = "query" /\ call.reads = 1
        /\ call.raised # "SerialException") =>
        /\ Len(call.response) < 10 =>
               /\ call.raised \in {"DeviceInactiveError", "ValueUnknownError"}
               /\ call.ret = NoReply
        /\ (IsWellFramed(call.response) /\ IsDecodable(call.response)
                /\ ~ChecksumHolds(call.response)) =>
               /\ call.raised = "ValueUnknownError"
               /\ call.ret = NoReply

\* C13 as stated: every query writes once and reads once, and leaves the
\* cache as it was.
C13_Original ==
    [][(Served /\ call'.op = "query") =>
          /\ Len(call'.written) = 1
          /\ call'.reads = 1
          /\ info' = info]_vars

\* C13: every query writes exactly one command, whatever the cache holds
\* and whatever came before, then reads once - unless the write raised a
\* transport error, which ends the call without a read - and leaves every
\* entry of the cache as it was, whether it succeeds or fails.
C13_QueryNeverCached ==
    [][(Served /\ call'.op = "query") =>
          /\ Len(call'.written) = 1
          /\ call'.written[1][3] = 4
          /\ call'.reads \in {0, 1}
          /\ call'.reads = 0 => call'.raised = "SerialException"
          /\ info' = info]_vars

\* a query that returned a sample while every property was cached
C13_Witness ==
    /\ call.op = "query"
    /\ call.raised = "none"
    /\ call.ret.type = "sample"
    /\ Len(call.written) = 1
    /\ call.reads = 1
    /\ \A p \in Getters : info[p] # None

\* C16 as stated, for complete replies: the entry of property p is only
\* assigned from a property reply whose property is p.
C16_CacheTypeIntegrity ==
    (ReadReply(call) /\ call.raised = "none"
        /\ IsWellFramed(call.response)) =>
        /\ call.response[2] = 197
        /\ call.ret.type = call.p

\* C17: a get or set of p changes the entry of no other property, and a
\* get, set or query that raises leaves the whole cache as it was.
C17_Frame ==
    [][Served =>
          /\ \A q \in InfoKeys : q # call'.p => info'[q] = info[q]
          /\ call'.raised # "none" => info' = info]_vars

\* a set that failed on the checksum of a reply carrying another value than
\* the entry, two other entries being known
C17_Witness ==
    /\ call.op = "set"
    /\ call.raised = "ValueUnknownError"
    /\ Len(call.response) = 10
    /\ info[call.p] \notin {None, IntVal(call.response[5])}
    /\ Cardinality({q \in InfoKeys : info[q] # None}) >= 3

(***************************************************************************)
(* interpret() as a pure function of its argument.                         *)
(***************************************************************************)
\* every byte position takes a right value and wrong ones
ByteChoices ==
    <<{MSG_HEAD} \cup BadBytes,
      {REPLY_PROPERTY, REPLY_SAMPLE} \cup BadBytes,
      {2, 5, 6, 7, 8, 150} \cup UnmappedIds,
      {0, 1, 21},
      {0, 6, 44},
      {1, 15},
      {255},
      {255, 0},
      {0, 1},
      {MSG_TAIL} \cup BadBytes>>

\* byte 8 is drawn as a distance from the right checksum
WithChecksum(b) ==
    IF Len(b) < 9 THEN b
    ELSE [b EXCEPT ![9] = (sum(SubSeq(b, 3, 8)) + b[9]) % 256]

RECURSIVE Strings(_)
Strings(n) ==
    IF n = 0 THEN {<<>>}
    ELSE {Append(s, c) : s \in Strings(n - 1),
                         c \in IF n <= Len(ByteChoices) THEN ByteChoices[n]
                                ELSE {0}}

ParseInputs == {WithChecksum(b) : b \in UNION {Strings(n) : n \in 0..MaxLen}}

InitParse ==
    /\ info = [k \in InfoKeys |-> None]
    /\ call = NoCall
    /\ parse \in {[state |-> "input", bytes |-> b] : b \in ParseInputs}
    /\ setup = NoSetUp
    /\ threads = [t \in Threads |-> IdleThread]
    /\ rx = <<>>
    /\ overlap = FALSE

Interpret ==
    /\ parse.state = "input"
    /\ parse' = [state |-> "output", bytes |-> parse.bytes,
                 result |-> interpret(parse.bytes)]
    /\ UNCHANGED <<info, call, setup, threads, rx, overlap>>

NextParse == Interpret

SpecParse == InitParse /\ [][NextParse]_vars

(***************************************************************************)
(* Properties of interpret() (specification SpecParse).                    *)
(***************************************************************************)
Parsed == parse.state = "output"

\* C7 as stated: interpret fails (with FramingError) on every input that is
\* not 10 bytes long or has a wrong head or tail byte; no such input is
\* decoded into a reply.
C7_FramingChecked ==
    (Parsed /\ ~IsWellFramed(parse.bytes)) =>
        /\ parse.result.err # "none"
        /\ parse.result.reply = NoReply

\* C8: a 10-byte reply of a recognized kind (and, in a property reply, a
\* property of the table) is decoded whatever its checksum byte is; the
\* checksum field of the reply is true exactly when byte 8 is the sum of
\* bytes 2..7 modulo 256, and the id field is bytes 6..7.
C8_ChecksumIsData ==
    (Parsed /\ Len(parse.bytes) = 10 /\ IsDecodable(parse.bytes)) =>
        /\ parse.result.err = "none"
        /\ parse.result.reply.checksum = ChecksumHolds(parse.bytes)
        /\ parse.result.reply.id = <<parse.bytes[7], parse.bytes[8]>>

\* a reply decoded with its checksum reported wrong, the payload summing to
\* more than one byte
C8_Witness ==
    /\ Parsed
    /\ Len(parse.bytes) = 10
    /\ parse.result.err = "none"
    /\ parse.result.reply.checksum = FALSE
    /\ parse.bytes[9] # (parse.bytes[3] + parse.bytes[4] + parse.bytes[5]
                         + parse.bytes[6] + parse.bytes[7] + parse.bytes[8])
                        % 256
    /\ parse.result.reply.id = <<255, 0>>

\* the table of property identifiers (section 4.2 of the spec), with the
\* names the reply dictionary uses
PropertyTable ==
    (2 :> "mode") @@ (5 :> "id") @@ (6 :> "active") @@ (7 :> "firmware")
        @@ (8 :> "period")

\* C10 as stated: byte 2 of a property reply selects the property by the
\* table, and a byte 2 outside it fails with UnknownPropertyError.
C10_Original ==
    (Parsed /\ Len(parse.bytes) >= 3 /\ parse.bytes[2] = 197) =>
        IF parse.bytes[3] \in DOMAIN PropertyTable
        THEN parse.result.err = "none" =>
                 parse.result.reply.type = PropertyTable[parse.bytes[3]]
        ELSE parse.result.err = "UnknownPropertyError"

\* C10: byte 2 of a property reply selects the property by the table
\* {0x02 mode, 0x05 id, 0x06 active, 0x07 firmware, 0x08 period}; a reply of
\* 10 bytes with byte 2 in the table is decoded, and every byte 2 outside
\* the table makes interpret fail with KeyError.
C10_PropertyTable ==
    (Parsed /\ Len(parse.bytes) >= 3 /\ parse.bytes[2] = 197) =>
        IF parse.bytes[3] \in DOMAIN PropertyTable
        THEN /\ parse.result.err \in {"none", "IndexError"}
             /\ Len(parse.bytes) >= 10 => parse.result.err = "none"
             /\ parse.result.err = "none" =>
                    parse.result.reply.type = PropertyTable[parse.bytes[3]]
        ELSE parse.result.err = "KeyError"

\* a property reply with byte 2 outside the table
C10_Witness ==
    /\ Parsed
    /\ Len(parse.bytes) = 10
    /\ parse.bytes[2] = 197
    /\ parse.bytes[3] = 9
    /\ parse.result.err = "KeyError"

\* C19: in a sample reply PM2.5 is (byte 2 + 256 * byte 3) / 10 and PM10 is
\* (byte 4 + 256 * byte 5) / 10: ten times the value decoded is the
\* little-endian 16-bit number, the last digit being the tenths.
C19_SampleDecode ==
    (Parsed /\ Len(parse.bytes) >= 9 /\ parse.bytes[2] = 192) =>
        /\ parse.result.err = "none"
        /\ parse.result.reply.type = "sample"
        /\ LET v == parse.result.reply.value IN
           /\ v.pm25.tenths \in 0..9
           /\ v.pm10.tenths \in 0..9
           /\ 10 * v.pm25.whole + v.pm25.tenths
                  = parse.bytes[3] + 256 * parse.bytes[4]
           /\ 10 * v.pm10.whole + v.pm10.tenths
                  = parse.bytes[5] + 256 * parse.bytes[6]

\* the raw values 150 and 300 decoded as 15.0 and 30.0
C19_Witness ==
    /\ Parsed
    /\ Len(parse.bytes) = 10
    /\ parse.bytes[2] = 192
    /\ SubSeq(parse.bytes, 3, 6) = <<150, 0, 44, 1>>
    /\ parse.result.err = "none"
    /\ parse.result.reply.value.pm25 = [whole |-> 15, tenths |-> 0]
    /\ parse.result.reply.value.pm10 = [whole |-> 30, tenths |-> 0]

DigitValue(c) ==
    CASE c = "0" -> 0 [] c = "1" -> 1 [] c = "2" -> 2 [] c = "3" -> 3
      [] c = "4" -> 4 [] c = "5" -> 5 [] c = "6" -> 6 [] c = "7" -> 7
      [] c = "8" -> 8 [] c = "9" -> 9

\* the numbers of a string of decimal numbers separated by "-"
RECURSIVE ReadFields(_, _)
ReadFields(s, acc) ==
    IF s = <<>> THEN acc
    ELSE IF Head(s) = "-" THEN ReadFields(Tail(s), Append(acc, 0))
    ELSE ReadFields(Tail(s),
                    [acc EXCEPT ![Len(acc)] = @ * 10 + DigitValue(Head(s))])

\* C20: the value of a firmware reply is the date year-month-day with year
\* 2000 + byte 3, month byte 4 and day byte 5, whatever the bytes are and
\* without failing (bytes 21, 6, 15 give "2021-6-15"); the value of every
\* other property reply is byte 4 of the reply.
C20_PropertyValue ==
    (Parsed /\ Len(parse.bytes) >= 9 /\ parse.bytes[2] = 197
        /\ parse.bytes[3] \in {2, 5, 6, 7, 8}) =>
        /\ parse.result.err = "none"
        /\ LET v == parse.result.reply.value IN
           IF parse.bytes[3] = 7
           THEN /\ v.t = "str"
                /\ ReadFields(v.s, <<0>>)
                       = <<2000 + parse.bytes[4], parse.bytes[5],
                           parse.bytes[6]>>
                /\ SubSeq(parse.bytes, 4, 6) = <<21, 6, 15>> =>
                       v.s = <<"2", "0", "2", "1", "-", "6", "-", "1", "5">>
           ELSE v = [t |-> "int", i |-> parse.bytes[5]]

\* a firmware reply whose month byte is no month, decoded without failing
C20_Witness ==
    /\ Parsed
    /\ Len(parse.bytes) = 10
    /\ parse.bytes[2] = 197
    /\ parse.bytes[3] = 7
    /\ SubSeq(parse.bytes, 4, 6) = <<21, 44, 15>>
    /\ parse.result.err = "none"
    /\ parse.result.reply.value.s
           = <<"2", "0", "2", "1", "-", "4", "4", "-", "1", "5">>


(***************************************************************************)
(* set_up() against a device that answers every command.                   *)
(***************************************************************************)
\* the reply of a working device to a command message: a well-formed frame
\* with the right checksum; a set is answered with the value written, a get
\* with the value the device holds
DeviceAnswer(message, held) ==
    LET command == message[3]
        write   == message[4]
        value   == message[5]
    IN  IF command = CMD_QUERY
        THEN MakeFrame(MSG_HEAD, REPLY_SAMPLE,
                       CHOOSE d \in SampleData : TRUE, 0, MSG_TAIL)
        ELSE IF command = CMD_FIRMWARE
        THEN MakeFrame(MSG_HEAD, REPLY_PROPERTY,
                       CHOOSE d \in FirmwareData : TRUE, 0, MSG_TAIL)
        ELSE MakeFrame(MSG_HEAD, REPLY_PROPERTY,
                       <<command, write, IF write = 1 THEN value ELSE held,
                         0, 255, 255>>,
                       0, MSG_TAIL)

\* props_checks, in the order the dictionary is iterated
props_order == <<"active", "device_id", "mode", "period">>

\* is_zero_to_one, is_two_bytes, is_zero_to_thirty; a device_id argument is
\* modelled by the bytes given, <<>> when it was not given
props_checks(key, value) ==
    CASE key \in {"active", "mode"} -> value \in {0, 1}
      [] key = "device_id" -> Len(value) = 2
      [] key = "period" -> value >= 0 /\ value <= 30

\* the arguments of set_up: -1 is kwargs.get(key, -1) of a missing key
SetUpArgs ==
    [active : {-1, 0, 1}, device_id : {<<>>, device_id},
     mode : {-1, 0, 1}, period : {-1, 31} \cup (0..MaxValue)]

\* the values the device holds for the properties that can be read
DeviceSettings == [Setters -> {0, 1}]

\* the statement of set_up that comes after `done` statements: the
\* _rw_property of the next key of the loop, a set when the value given
\* passes its check and a get otherwise, and after the loop
\* self._rw_property('firmware')
set_up_step(inf, done, kwargs, dev) ==
    LET in_loop  == done < Len(props_order)
        key      == IF in_loop THEN props_order[done + 1] ELSE "firmware"
        p_set    == IF in_loop /\ props_checks(key, kwargs[key])
                    THEN 1 ELSE 0
        p_value  == IF p_set = 1 THEN kwargs[key] ELSE 0
        response ==
            IF key \in DOMAIN p_switch
            THEN DeviceAnswer(send_command(p_switch[key], p_set, p_value),
                              IF key \in DOMAIN dev THEN dev[key] ELSE 0)
            ELSE <<>>
    IN  rw_property(inf, key, p_set, p_value, "ok", response)

InitSetUp ==
    /\ info = [k \in InfoKeys |-> None]
    /\ call = NoCall
    /\ parse = NoParse
    /\ setup \in {[state |-> "running", kwargs |-> k, dev |-> d, done |-> 0,
                   raised |-> "none", written |-> <<>>, reads |-> 0] :
                     k \in SetUpArgs, d \in DeviceSettings}
    /\ threads = [t \in Threads |-> IdleThread]
    /\ rx = <<>>
    /\ overlap = FALSE

\* set_up(**kwargs), one statement per step: it returns after the firmware
\* and ends early with the first exception
SetUp ==
    /\ setup.state = "running"
    /\ LET o == set_up_step(info, setup.done, setup.kwargs, setup.dev) IN
       /\ info' = o.info
       /\ setup' = [setup EXCEPT
              !.state = IF o.raised # "none" \/ setup.done = Len(props_order)
                        THEN "returned" ELSE "running",
              !.done = @ + 1,
              !.raised = o.raised,
              !.written = @ \o o.written,
              !.reads = @ + o.reads]
    /\ UNCHANGED <<call, parse, threads, rx, overlap>>

NextSetUp == SetUp

SpecSetUp == InitSetUp /\ [][NextSetUp]_vars

(***************************************************************************)
(* Properties of set_up() (specification SpecSetUp).                       *)
(***************************************************************************)
\* C14 as stated: against a device that answers every command with a
\* well-formed checksum-valid reply, set_up returns without raising, has
\* written every property for which a valid value was given, and leaves the
\* entries of active, mode, period and firmware known.
C14_SetUpCompletes ==
    setup.state = "returned" =>
        /\ setup.raised = "none"
        /\ \A p \in Getters : info[p] # None
        /\ \A p \in Setters :
              props_checks(p, setup.kwargs[p]) =>
                  \E i \in 1..Len(setup.written) :
                      setup.written[i]
                          = send_command(p_switch[p], 1, setup.kwargs[p])


(***************************************************************************)
(* Two callers of one instance, one transport operation per step.          *)
(***************************************************************************)
\* variants of the order of the transport operations: the exchange made
\* twice, and the read made before the write
exchange_steps_twice == <<"write", "read", "write", "read">>
exchange_steps_swapped == <<"read", "write">>

\* _send_command then _get_response: the transport operations of a request
\* that goes to the device
exchange_steps == <<"write", "read">>

\* the requests the callers make
ThreadRequests ==
    {[op |-> "get", p |-> p, p_set |-> 0, p_value |-> 0] :
        p \in {"firmware", "mode", "period"}}
        \cup {[op |-> "set", p |-> "period", p_set |-> 1, p_value |-> v] :
                 v \in 0..MaxValue}
        \cup {[op |-> "query", p |-> "sample", p_set |-> 0, p_value |-> 0]}

\* what a write meets: a device that answers, one that stays silent
\* (asleep), or a port that raises SerialException
WriteRuns == {"answer", "silent", "write_error"}

\* the command byte of a request
command_of(th) == IF th.op = "query" THEN CMD_QUERY ELSE p_switch[th.p]

\* _rw_property once the bytes of the reply are read
rw_finish(inf, p, p_set, response) ==
    LET r == interpret(response) IN
    IF r.err = "IndexError"
    THEN [info |-> inf, raised |-> index_error_handler(p_set)]
    ELSE IF r.err # "none"
    THEN [info |-> inf, raised |-> r.err]
    ELSE IF checksum_rejected(r.reply)
    THEN [info |-> inf, raised |-> "ValueUnknownError"]
    ELSE [info |-> store(inf, p, r.reply), raised |-> "none"]

\* query() once the bytes of the reply are read
query_finish(inf, response) ==
    [info |-> inf, raised |-> interpret(response).err]

\* the request has returned or raised
Returned(th, raised) ==
    [pc |-> "returned", op |-> th.op, p |-> th.p, p_set |-> th.p_set,
     p_value |-> th.p_value, ops |-> th.ops, got |-> th.got,
     raised |-> raised]

\* the caller and the cache after a transport operation: the request goes
\* on while operations are left, and ends with the reply interpreted
AfterStep(th, inf) ==
    IF th.at < Len(exchange_steps)
    THEN [thread |-> th, info |-> inf]
    ELSE LET f == IF th.op = "query"
                  THEN query_finish(inf, th.response)
                  ELSE rw_finish(inf, th.p, th.p_set, th.response)
         IN  [thread |-> Returned(th, f.raised), info |-> f.info]

\* a caller enters a getter, a setter or query(); a get of a known entry
\* returns at once
ThreadEnter(t) ==
    /\ threads[t] = IdleThread
    /\ \E r \in ThreadRequests :
          LET th == [pc |-> "exchange", op |-> r.op, p |-> r.p,
                     p_set |-> r.p_set, p_value |-> r.p_value, at |-> 0,
                     ops |-> <<>>, got |-> 0, response |-> <<>>]
          IN  threads' = [threads EXCEPT ![t] =
                  IF r.op # "query" /\ stored_read(info, r.p, r.p_set)
                  THEN Returned(th, "none") ELSE th]
    /\ overlap' = (overlap \/ \E u \in Threads \ {t} :
                                 threads[u].pc = "exchange")
    /\ UNCHANGED <<info, rx, call, parse, setup>>

\* self._sd.write(message)
ThreadWrite(t) ==
    /\ threads[t].pc = "exchange"
    /\ threads[t].at < Len(exchange_steps)
    /\ exchange_steps[threads[t].at + 1] = "write"
    /\ \E d \in WriteRuns :
          LET th == [threads[t] EXCEPT !.at = @ + 1,
                                       !.ops = Append(@, "write")]
              message == send_command(command_of(th), th.p_set, th.p_value)
              a == AfterStep(th, info)
          IN  /\ threads' = [threads EXCEPT ![t] =
                     IF d = "write_error"
                     THEN Returned(th, "SerialException") ELSE a.thread]
              /\ info' = IF d = "write_error" THEN info ELSE a.info
              /\ rx' = IF d = "answer"
                       THEN Append(rx, [owner |-> t,
                                        frame |-> DeviceAnswer(message, 0)])
                       ELSE rx
    /\ UNCHANGED <<overlap, call, parse, setup>>

\* self._sd.read(10): the oldest reply waiting, nothing after the timeout
ThreadRead(t) ==
    /\ threads[t].pc = "exchange"
    /\ threads[t].at < Len(exchange_steps)
    /\ exchange_steps[threads[t].at + 1] = "read"
    /\ LET th == [threads[t] EXCEPT
                     !.at = @ + 1,
                     !.ops = Append(@, "read"),
                     !.got = IF rx = <<>> THEN 0 ELSE Head(rx).owner,
                     !.response = IF rx = <<>> THEN <<>> ELSE Head(rx).frame]
           a == AfterStep(th, info)
       IN  /\ threads' = [threads EXCEPT ![t] = a.thread]
           /\ info' = a.info
    /\ rx' = IF rx = <<>> THEN rx ELSE Tail(rx)
    /\ UNCHANGED <<overlap, call, parse, setup>>

\* the caller has the result or the exception
ThreadReturn(t) ==
    /\ threads[t].pc = "returned"
    /\ threads' = [threads EXCEPT ![t] = IdleThread]
    /\ UNCHANGED <<info, rx, overlap, call, parse, setup>>

NextThreads ==
    \E t \in Threads :
        ThreadEnter(t) \/ ThreadWrite(t) \/ ThreadRead(t) \/ ThreadReturn(t)

SpecThreads == Init /\ [][NextThreads]_vars


(***************************************************************************)
(* Properties of the transport operations (specification SpecThreads).     *)
(***************************************************************************)
\* C15: the transport operations of every request of a caller are none (a
\* get served from the cache), one write (the write raised), or one write
\* followed by one read; no read comes without a write before it, no second
\* write comes before the request returns, and a request that failed has
\* not been sent again.
C15_RequestThenResponse ==
    \A t \in Threads :
        threads[t].pc # "idle" =>
            /\ threads[t].ops \in {<<>>, <<"write">>, <<"write", "read">>}
            /\ threads[t].pc = "returned" =>
                  /\ threads[t].ops = <<>> =>
                        /\ threads[t].op = "get"
                        /\ threads[t].raised = "none"
                        /\ info[threads[t].p] # None
                  /\ threads[t].ops = <<"write">> =>
                        threads[t].raised = "SerialException"
                  /\ threads[t].raised \notin {"none", "SerialException"} =>
                        threads[t].ops = <<"write", "read">>

\* a request that failed after its one write and one read, next to a get
\* served from the cache
C15_Witness ==
    /\ threads[1].pc = "returned"
    /\ threads[1].raised = "ValueUnknownError"
    /\ threads[1].ops = <<"write", "read">>
    /\ threads[2].pc = "returned"
    /\ threads[2].ops = <<>>

\* the callers whose command is written and whose read is still to come
Outstanding ==
    {t \in Threads : threads[t].pc = "exchange"
                        /\ threads[t].ops = <<"write">>}

\* every read so far took nothing or the reply to the reader's own command,
\* and at most one command waits for its read
Adjacent ==
    /\ \A t \in Threads : threads[t].pc # "idle" => threads[t].got \in {0, t}
    /\ Cardinality(Outstanding) <= 1

\* C18 as stated: under every interleaving of two callers no read consumes
\* the reply to the other caller's command and no second command is written
\* while a reply is outstanding.
C18_Original == Adjacent

\* C18: as long as no request was started while another was between its
\* entry and its return (the callers serialize their calls), every read
\* takes nothing or the reply to the reader's own command and at most one
\* command waits for its read.
C18_SerializedCallers == ~overlap => Adjacent

\* both callers have read the reply to their own command, one after the
\* other
C18_Witness ==
    /\ ~overlap
    /\ threads[1].pc = "returned"
    /\ threads[1].got = 1
    /\ threads[2].pc = "returned"
    /\ threads[2].got = 2

====
